---- MODULE Spec2Model ----
(***************************************************************************)
(* Linear-programming inverse reinforcement learning (Ng and Russell 2000) *)
(* as implemented in irl_methods/linear_programming.py: the three LP       *)
(* formulators linear_programming, large_linear_programming and            *)
(* trajectory_linear_programming, the constraint blocks they apply to the  *)
(* triple (c, A_ub, b_ub), the call to the LP solver and the               *)
(* post-processing of its answer; and the discrete grid world of           *)
(* irl_methods/mdp/gridworld.py that supplies their inputs.                *)
(*                                                                         *)
(* Numbers are exact rationals <<numerator, denominator>>.  Python indices *)
(* are 0-based and the sequences here 1-based: a Python index i is         *)
(* position i + 1.                                                         *)
(***************************************************************************)
EXTENDS Integers, Sequences, FiniteSets, TLC

VARIABLES fn, inp, pc, c, A_ub, b_ub, res, ret, log,
          alpha, non_expert_policy_set, non_expert_policy_value_vectors,
          self_state, out

vars == <<fn, inp, pc, c, A_ub, b_ub, res, ret, log,
          alpha, non_expert_policy_set, non_expert_policy_value_vectors,
          self_state, out>>

\* the grid world's part of the state: GridWorldDiscEnv.state and what the
\* last call on the environment handed back
gwvars == <<self_state, out>>

(***************************************************************************)
(* Exact rational arithmetic (the float arithmetic of numpy, idealised)    *)
(***************************************************************************)
Abs(x) == IF x < 0 THEN -x ELSE x

RECURSIVE GCD(_, _)
GCD(a, b) == IF b = 0 THEN a ELSE GCD(b, a % b)

Rat(num, den) ==
    LET g == GCD(Abs(num), Abs(den))
        s == IF den < 0 THEN -1 ELSE 1
    IN  <<(s * num) \div g, (s * den) \div g>>

Q(i) == <<i, 1>>
RAdd(x, y) == Rat(x[1] * y[2] + y[1] * x[2], x[2] * y[2])
RNeg(x) == <<-x[1], x[2]>>
RSub(x, y) == RAdd(x, RNeg(y))
RMul(x, y) == Rat(x[1] * y[1], x[2] * y[2])
RDiv(x, y) == Rat(x[1] * y[2], x[2] * y[1])
RLe(x, y) == x[1] * y[2] <= y[1] * x[2]
RLt(x, y) == x[1] * y[2] < y[1] * x[2]
RAbs(x) == <<Abs(x[1]), x[2]>>

RECURSIVE RSum(_)
RSum(v) == IF v = <<>> THEN Q(0) ELSE RAdd(v[1], RSum(Tail(v)))

Dot(u, v) == RSum([j \in 1..Len(u) |-> RMul(u[j], v[j])])

RMin(S) == CHOOSE x \in S : \A y \in S : RLe(x, y)
RMax(S) == CHOOSE x \in S : \A y \in S : RLe(y, x)
Range(v) == {v[j] : j \in 1..Len(v)}

(***************************************************************************)
(* Dense matrices: sequences of rows                                       *)
(***************************************************************************)
Zeros(len) == [j \in 1..len |-> Q(0)]
Ones(len) == [j \in 1..len |-> Q(1)]
Identity(size) == [i \in 1..size |-> [j \in 1..size |-> IF i = j THEN Q(1) ELSE Q(0)]]
MatScale(x, M) == [i \in 1..Len(M) |-> [j \in 1..Len(M[i]) |-> RMul(x, M[i][j])]]
MatSub(M, N) == [i \in 1..Len(M) |-> [j \in 1..Len(M[i]) |-> RSub(M[i][j], N[i][j])]]
Column(M, j) == [i \in 1..Len(M) |-> M[i][j]]
MatMul(M, N) ==
    [i \in 1..Len(M) |-> [j \in 1..Len(N[1]) |-> Dot(M[i], Column(N, j))]]

Drop(v, j) == [i \in 1..(Len(v) - 1) |-> IF i < j THEN v[i] ELSE v[i + 1]]
Minor(M, i, j) == [r \in 1..(Len(M) - 1) |-> Drop(Drop(M, i)[r], j)]
Sign(i) == IF i % 2 = 0 THEN Q(1) ELSE Q(-1)

RECURSIVE Det(_)
Det(M) ==
    IF M = <<>> THEN Q(1)
    ELSE RSum([j \in 1..Len(M) |->
                 RMul(RMul(Sign(1 + j), M[1][j]), Det(Minor(M, 1, j)))])

\* np.linalg.inv: the exact inverse (adjugate over determinant)
Inv(M) ==
    LET dt == Det(M)
    IN  [i \in 1..Len(M) |-> [j \in 1..Len(M) |->
            RDiv(RMul(Sign(i + j), Det(Minor(M, j, i))), dt)]]

(***************************************************************************)
(* The LP problem (c, A_ub, b_ub).  A numpy array keeps its shape also     *)
(* when it has no rows, so the matrix carries its column count; ok turns   *)
(* FALSE when numpy would raise on mismatched shapes.                      *)
(***************************************************************************)
NewLP(ncols) ==
    [c |-> Zeros(ncols), A |-> <<>>, cols |-> ncols, b |-> <<>>, ok |-> TRUE]

\* c = np.hstack((c, vals))
HStackC(lp, vals) == [lp EXCEPT !.c = lp.c \o vals]

\* A_ub = np.hstack((A_ub, np.zeros(shape=[A_ub.shape[0], extra])))
HStackA(lp, extra) ==
    [lp EXCEPT !.A = [r \in 1..Len(lp.A) |-> lp.A[r] \o Zeros(extra)],
               !.cols = lp.cols + extra]

\* A_ub = np.vstack((A_ub, rows)); b_ub = np.vstack((b_ub, bvals))
VStack(lp, rows, bvals) ==
    IF lp.ok /\ \A r \in 1..Len(rows) : Len(rows[r]) = lp.cols
    THEN [lp EXCEPT !.A = lp.A \o rows, !.b = lp.b \o bvals]
    ELSE [lp EXCEPT !.ok = FALSE]

\* row = [0] * width; row[i] = v for each Python index i of assign
RowWith(width, assign) ==
    [j \in 1..width |-> IF (j - 1) \in DOMAIN assign THEN assign[j - 1] ELSE Q(0)]

(***************************************************************************)
(* linear_programming: the tabular formulator                              *)
(***************************************************************************)
NumStates(T) == Len(T)
NumActions(T) == Len(T[1])

\* sorted_transition_tensor[:, i, :] for a Python action index i
Tslice(T, i) == [s \in 1..Len(T) |-> T[s][i + 1]]

T_disc_inv(T, discount_factor) ==
    Inv(MatSub(Identity(NumStates(T)), MatScale(discount_factor, Tslice(T, 0))))

\* -1 * (T[:, 0, :] - T[:, i, :]) @ _T_disc_inv
ConstraintRows(T, Tinv, i) ==
    MatMul(MatScale(Q(-1), MatSub(Tslice(T, 0), Tslice(T, i))), Tinv)

\* the action indices the loops of both tabular blocks visit: range(k - 1)
BlockActionRange(k) == 0..(k - 2)

RECURSIVE opc_loop(_, _, _, _)
opc_loop(T, Tinv, i, lp) ==
    IF i \notin BlockActionRange(NumActions(T)) THEN lp
    ELSE opc_loop(T, Tinv, i + 1,
                  VStack(lp, ConstraintRows(T, Tinv, i), Zeros(NumStates(T))))

add_optimal_policy_constraints(T, Tinv, lp) == opc_loop(T, Tinv, 0, lp)

RECURSIVE css_loop(_, _, _, _, _)
css_loop(T, Tinv, css_offset, i, lp) ==
    LET n == NumStates(T)
        num_padding_cols == css_offset - n
        rows == ConstraintRows(T, Tinv, i)
        min_operator_entries == Identity(n)
        full == [s \in 1..n |->
                    rows[s] \o Zeros(num_padding_cols) \o min_operator_entries[s]]
    IN  IF i \notin BlockActionRange(NumActions(T)) THEN lp
        ELSE IF num_padding_cols < 0 THEN [lp EXCEPT !.ok = FALSE]
        ELSE css_loop(T, Tinv, css_offset, i + 1, VStack(lp, full, Zeros(n)))

add_costly_single_step_constraints(T, Tinv, lp) ==
    LET n == NumStates(T)
        lp1 == HStackC(lp, [j \in 1..n |-> Q(-1)])
        css_offset == Len(lp1.c) - n
        lp2 == HStackA(lp1, n)
    IN  css_loop(T, Tinv, css_offset, 0, lp2)

\* variant: the bound written as a symmetric pair of rows per variable
RECURSIVE rmax_symmetric_loop(_, _, _, _)
rmax_symmetric_loop(n, Rmax, i, lp) ==
    IF i >= n THEN lp
    ELSE rmax_symmetric_loop(n, Rmax, i + 1,
             VStack(VStack(lp, <<RowWith(lp.cols, (i :> Q(1)))>>, <<Rmax>>),
                    <<RowWith(lp.cols, (i :> Q(-1)))>>, <<Rmax>>))

add_rmax_constraints_symmetric(n, Rmax, lp) == rmax_symmetric_loop(n, Rmax, 0, lp)

RECURSIVE rmax_loop(_, _, _, _)
rmax_loop(n, Rmax, i, lp) ==
    IF i >= n THEN lp
    ELSE rmax_loop(n, Rmax, i + 1,
                   VStack(lp, <<RowWith(lp.cols, (i :> Q(1)))>>, <<Rmax>>))

add_rmax_constraints(n, Rmax, lp) == rmax_loop(n, Rmax, 0, lp)

\* variant: the absolute value written as -x - aux <= 0 and x - aux <= 0
RECURSIVE l1_abs_loop(_, _, _, _)
l1_abs_loop(n, l1_offset, i, lp) ==
    LET constraint_row_1 == RowWith(lp.cols, (i :> Q(-1)) @@ ((l1_offset + i) :> Q(-1)))
        constraint_row_2 == RowWith(lp.cols, (i :> Q(1)) @@ ((l1_offset + i) :> Q(-1)))
    IN  IF i >= n THEN lp
        ELSE l1_abs_loop(n, l1_offset, i + 1,
                         VStack(VStack(lp, <<constraint_row_1>>, <<Q(0)>>),
                                <<constraint_row_2>>, <<Q(0)>>))

add_l1norm_constraints_abs(n, l1, lp) ==
    LET lp1 == HStackC(lp, [j \in 1..n |-> l1])
        l1_offset == Len(lp1.c) - n
        lp2 == HStackA(lp1, n)
    IN  l1_abs_loop(n, l1_offset, 0, lp2)

RECURSIVE l1_loop(_, _, _, _)
l1_loop(n, l1_offset, i, lp) ==
    LET constraint_row_1 == RowWith(lp.cols, (i :> Q(-1)))
        constraint_row_2 == RowWith(lp.cols, (i :> Q(1)) @@ ((l1_offset + i) :> Q(-1)))
    IN  IF i >= n THEN lp
        ELSE l1_loop(n, l1_offset, i + 1,
                     VStack(VStack(lp, <<constraint_row_1>>, <<Q(0)>>),
                            <<constraint_row_2>>, <<Q(0)>>))

\* variant: l1_offset taken before c is extended
add_l1norm_constraints_early_offset(n, l1, lp) ==
    LET l1_offset == Len(lp.c) - n
        lp1 == HStackC(lp, [j \in 1..n |-> l1])
        lp2 == HStackA(lp1, n)
    IN  l1_loop(n, l1_offset, 0, lp2)

add_l1norm_constraints(n, l1, lp) ==
    LET lp1 == HStackC(lp, [j \in 1..n |-> l1])
        l1_offset == Len(lp1.c) - n
        lp2 == HStackA(lp1, n)
    IN  l1_loop(n, l1_offset, 0, lp2)

\* normalize(vals): (vals - min) / (max - min), for max > min
\* variant: the values divided by their spread without the shift by min_val
normalize_unshifted(vals) ==
    LET min_val == RMin(Range(vals))
        max_val == RMax(Range(vals))
    IN  [j \in 1..Len(vals) |-> RDiv(vals[j], RSub(max_val, min_val))]

normalize(vals) ==
    LET min_val == RMin(Range(vals))
        max_val == RMax(Range(vals))
    IN  [j \in 1..Len(vals) |-> RDiv(RSub(vals[j], min_val), RSub(max_val, min_val))]

(***************************************************************************)
(* large_linear_programming: the sampled formulator                        *)
(***************************************************************************)
VecAdd(u, v) == [j \in 1..Len(u) |-> RAdd(u[j], v[j])]
VecSub(u, v) == [j \in 1..Len(u) |-> RSub(u[j], v[j])]
VecScale(x, v) == [j \in 1..Len(v) |-> RMul(x, v[j])]

RECURSIVE VecSum(_, _)
VecSum(vs, len) == IF vs = <<>> THEN Zeros(len) ELSE VecAdd(vs[1], VecSum(Tail(vs), len))

\* a_ve[:, a]: the mean of basis_value_fn over the num_transition_samples
\* states drawn for Python action a from the state at index si
llp_a_ve(in, draws, si, a) ==
    LET d == Len(in.basis_value_fn[in.state_sample[1]])
        samples == [i \in 1..in.num_transition_samples |->
                       in.basis_value_fn[draws[si][i][a + 1]]]
    IN  VecScale(Rat(1, in.num_transition_samples), VecSum(samples, d))

\* variant: tmp marks the first helper column for every sampled state
llp_state_rows_first_helper(in, draws, si, coef) ==
    LET num_states == Len(in.state_sample)
        tmp == RowWith(num_states, (0 :> Q(-1)))
    IN  [a \in 1..(in.num_actions - 1) |->
            VecScale(coef, VecSub(llp_a_ve(in, draws, si, 0), llp_a_ve(in, draws, si, a)))
            \o tmp]

\* the rows one sampled state contributes: a_ve_diff.T, scaled by coef, next
\* to tmp (-1 in the state's own helper column)
llp_state_rows(in, draws, si, coef) ==
    LET num_states == Len(in.state_sample)
        tmp == RowWith(num_states, ((si - 1) :> Q(-1)))
    IN  [a \in 1..(in.num_actions - 1) |->
            VecScale(coef, VecSub(llp_a_ve(in, draws, si, 0), llp_a_ve(in, draws, si, a)))
            \o tmp]

RECURSIVE llp_css_loop(_, _, _, _)
llp_css_loop(in, draws, si, lp) ==
    LET zeros == Zeros(in.num_actions - 1)
        first == VStack(lp, llp_state_rows(in, draws, si, Q(1)), zeros)
        second == VStack(first,
                         llp_state_rows(in, draws, si, in.penalty_coefficient), zeros)
    IN  IF si > Len(in.state_sample) THEN lp
        ELSE llp_css_loop(in, draws, si + 1, second)

\* variant: the helper columns added to a_ub but not to c
llp_add_costly_single_step_constraints_short_c(in, draws, lp) ==
    llp_css_loop(in, draws, 1, HStackA(lp, Len(in.state_sample)))

llp_add_costly_single_step_constraints(in, draws, lp) ==
    LET num_states == Len(in.state_sample)
        lp1 == HStackC(lp, [j \in 1..num_states |-> Q(-1)])
        lp2 == HStackA(lp1, num_states)
    IN  llp_css_loop(in, draws, 1, lp2)

RECURSIVE llp_alpha_loop(_, _, _)
llp_alpha_loop(num_basis_functions, i, lp) ==
    IF i >= num_basis_functions THEN lp
    ELSE llp_alpha_loop(num_basis_functions, i + 1,
             VStack(VStack(lp, <<RowWith(lp.cols, (i :> Q(1)))>>, <<Q(1)>>),
                    <<RowWith(lp.cols, (i :> Q(-1)))>>, <<Q(1)>>))

llp_add_alpha_size_constraints(num_basis_functions, lp) ==
    llp_alpha_loop(num_basis_functions, 0, lp)

(***************************************************************************)
(* trajectory_linear_programming: the trajectory formulator                *)
(***************************************************************************)
RECURSIVE Pow(_, _)
Pow(x, j) == IF j = 0 THEN Q(1) ELSE RMul(x, Pow(x, j - 1))

\* one rollout of mc_trajectories: (state, action) pairs from state, at most
\* H of them, ending early when the sampler reports done
\* variant: the rollout goes on to H entries whatever the sampler reports
RECURSIVE rollout_from_ignores_done(_, _, _, _)
rollout_from_ignores_done(in, policy, state, rollout) ==
    LET action == policy[state]
        step == in.T[state][action + 1]
    IN  IF Len(rollout) >= in.H THEN rollout
        ELSE rollout_from_ignores_done(in, policy, step.next,
                                       Append(rollout, <<state, action>>))

RECURSIVE rollout_from(_, _, _, _)
rollout_from(in, policy, state, rollout) ==
    LET action == policy[state]
        step == in.T[state][action + 1]
    IN  IF Len(rollout) >= in.H THEN rollout
        ELSE IF step.done THEN Append(rollout, <<state, action>>)
        ELSE rollout_from(in, policy, step.next, Append(rollout, <<state, action>>))

start_state(in) == in.zeta[1][1][1]

mc_trajectories(in, policy) ==
    [i \in 1..in.m |-> rollout_from(in, policy, start_state(in), <<>>)]

emperical_trajectory_value(in, trajectory) ==
    [i \in 1..Len(in.phi) |->
        RSum([j \in 1..Len(trajectory) |->
                RMul(Pow(in.gamma, j - 1), in.phi[i][trajectory[j][1]])])]

emperical_policy_value(in, trajectories) ==
    VecScale(Rat(1, Len(trajectories)),
             VecSum([t \in 1..Len(trajectories) |->
                        emperical_trajectory_value(in, trajectories[t])],
                    Len(in.phi)))

\* the rows comparing the expert with each known policy, scaled by coef
tlp_expert_rows(expert_value_vector, value_vectors, coef) ==
    LET k == Len(value_vectors)
    IN  [j \in 1..k |->
            VecScale(coef, VecSub(expert_value_vector, value_vectors[j]))
            \o MatScale(Q(-1), Identity(k))[j]]

\* variant: only the unpenalised block of expert rows
add_optimal_expert_constraints_unpenalised_only(in, value_vectors, lp) ==
    LET d == Len(in.phi)
        k == Len(value_vectors)
        expert_value_vector == emperical_policy_value(in, in.zeta)
        lp1 == [lp EXCEPT !.c = Zeros(d) \o Ones(k)]
        lp2 == HStackA(lp1, k)
    IN  VStack(lp2, tlp_expert_rows(expert_value_vector, value_vectors, Q(1)),
               Zeros(k))

add_optimal_expert_constraints(in, value_vectors, lp) ==
    LET d == Len(in.phi)
        k == Len(value_vectors)
        expert_value_vector == emperical_policy_value(in, in.zeta)
        lp1 == [lp EXCEPT !.c = Zeros(d) \o Ones(k)]
        lp2 == HStackA(lp1, k)
        lp3 == VStack(lp2, tlp_expert_rows(expert_value_vector, value_vectors, Q(1)),
                      Zeros(k))
    IN  VStack(lp3, tlp_expert_rows(expert_value_vector, value_vectors, in.p), Zeros(k))

\* variant: only the upper bound alpha_i <= 1
RECURSIVE tlp_alpha_upper_loop(_, _, _)
tlp_alpha_upper_loop(d, i, lp) ==
    IF i >= d THEN lp
    ELSE tlp_alpha_upper_loop(d, i + 1,
             VStack(lp, <<RowWith(lp.cols, (i :> Q(1)))>>, <<Q(1)>>))

tlp_add_alpha_size_constraints_upper_only(d, lp) == tlp_alpha_upper_loop(d, 0, lp)

RECURSIVE tlp_alpha_loop(_, _, _)
tlp_alpha_loop(d, i, lp) ==
    IF i >= d THEN lp
    ELSE tlp_alpha_loop(d, i + 1,
             VStack(VStack(lp, <<RowWith(lp.cols, (i :> Q(1)))>>, <<Q(1)>>),
                    <<RowWith(lp.cols, (i :> Q(-1)))>>, <<Q(1)>>))

tlp_add_alpha_size_constraints(d, lp) == tlp_alpha_loop(d, 0, lp)

\* np.linalg.norm(alpha - alpha_new) <= tol
Converged(alpha_old, alpha_new, tol) ==
    LET diff == VecSub(alpha_old, alpha_new)
    IN  RLe(Dot(diff, diff), RMul(tol, tol))

(***************************************************************************)
(* The LP solver, cvxopt.solvers.lp(c, A_ub, b_ub): minimise c.x subject   *)
(* to A_ub x <= b_ub.  It answers a status and a point x.  With status     *)
(* 'optimal' x is an optimum; 'primal infeasible' carries no x; with 'dual *)
(* infeasible' (unbounded problem) x is a certificate and with 'unknown'   *)
(* the last iterate, neither of which need be feasible.                    *)
(*                                                                         *)
(* The first nt columns (the true variables) range over TrueVals.  Every   *)
(* row of the problems built here has at most one non-zero coefficient     *)
(* right of them (Separable), so for a fixed true part each further column *)
(* is bounded by its own rows alone and is optimised exactly.              *)
(***************************************************************************)
TrueVals == {Q(i) : i \in {-1, 0, 1, 2}}
ProbeVals == {Q(i) : i \in {-2, 0, 1, 3}}
HelperVals == {Q(i) : i \in {-1, 0, 1}}

RowVal(row, x) == Dot(row, x)
Feasible(lp, x) == \A r \in 1..Len(lp.A) : RLe(RowVal(lp.A[r], x), lp.b[r])
Objective(lp, x) == Dot(lp.c, x)

HelperCols(lp, nt) == (nt + 1)..lp.cols
TruePart(row, nt) == SubSeq(row, 1, nt)
TouchedHelpers(lp, nt, r) == {h \in HelperCols(lp, nt) : lp.A[r][h] # Q(0)}
Separable(lp, nt) == \A r \in 1..Len(lp.A) : Cardinality(TouchedHelpers(lp, nt, r)) <= 1
TrueRows(lp, nt) == {r \in 1..Len(lp.A) : TouchedHelpers(lp, nt, r) = {}}

\* the value of column h that makes row r tight, for the true part tp
Tight(lp, nt, r, h, tp) ==
    RDiv(RSub(lp.b[r], Dot(TruePart(lp.A[r], nt), tp)), lp.A[r][h])
Uppers(lp, nt, h, tp) ==
    {Tight(lp, nt, r, h, tp) : r \in {q \in 1..Len(lp.A) : RLt(Q(0), lp.A[q][h])}}
Lowers(lp, nt, h, tp) ==
    {Tight(lp, nt, r, h, tp) : r \in {q \in 1..Len(lp.A) : RLt(lp.A[q][h], Q(0))}}

TrueFeasible(lp, nt, tp) ==
    /\ \A r \in TrueRows(lp, nt) : RLe(Dot(TruePart(lp.A[r], nt), tp), lp.b[r])
    /\ \A h \in HelperCols(lp, nt) :
          \A lo \in Lowers(lp, nt, h, tp) : \A up \in Uppers(lp, nt, h, tp) : RLe(lo, up)

\* column h can improve the objective without limit
HelperUnbounded(lp, nt, h, tp) ==
    \/ RLt(lp.c[h], Q(0)) /\ Uppers(lp, nt, h, tp) = {}
    \/ RLt(Q(0), lp.c[h]) /\ Lowers(lp, nt, h, tp) = {}

\* the optimal values of column h for the true part tp
HelperBest(lp, nt, h, tp) ==
    LET lows == Lowers(lp, nt, h, tp)
        ups == Uppers(lp, nt, h, tp)
        inside(v) == (\A lo \in lows : RLe(lo, v)) /\ (\A up \in ups : RLe(v, up))
    IN  IF RLt(lp.c[h], Q(0)) THEN {RMin(ups)}
        ELSE IF RLt(Q(0), lp.c[h]) THEN {RMax(lows)}
        ELSE (IF lows = {} THEN {} ELSE {RMax(lows)})
             \cup (IF ups = {} THEN {} ELSE {RMin(ups)})
             \cup {v \in HelperVals : inside(v)}

TruePoints(nt) == [1..nt -> TrueVals]
FeasibleTrue(lp, nt) == {tp \in TruePoints(nt) : TrueFeasible(lp, nt, tp)}
UnboundedOver(lp, nt, ftp) ==
    \E tp \in ftp : \E h \in HelperCols(lp, nt) : HelperUnbounded(lp, nt, h, tp)
Unbounded(lp, nt) == UnboundedOver(lp, nt, FeasibleTrue(lp, nt))

BestValue(lp, nt, tp) ==
    RAdd(Dot(TruePart(lp.c, nt), tp),
         RSum([i \in 1..(lp.cols - nt) |->
                 RMul(lp.c[nt + i],
                      CHOOSE v \in HelperBest(lp, nt, nt + i, tp) : TRUE)]))

Extend(lp, nt, tp, hv) == [j \in 1..lp.cols |-> IF j <= nt THEN tp[j] ELSE hv[j]]

\* the optima of the problem among the points with true part in ftp
OptimalOver(lp, nt, ftp) ==
    LET val == [tp \in ftp |-> BestValue(lp, nt, tp)]
        least == RMin({val[tp] : tp \in ftp})
        best == {tp \in ftp : val[tp] = least}
        choices(tp) == [h \in HelperCols(lp, nt) |-> HelperBest(lp, nt, h, tp)]
        pool(ch) == UNION {ch[h] : h \in HelperCols(lp, nt)}
        points(tp, ch) ==
            {Extend(lp, nt, tp, hv) :
                hv \in {f \in [HelperCols(lp, nt) -> pool(ch)] :
                          \A h \in HelperCols(lp, nt) : f[h] \in ch[h]}}
    IN  UNION {points(tp, choices(tp)) : tp \in best}

OptimalPoints(lp, nt) == OptimalOver(lp, nt, FeasibleTrue(lp, nt))

\* the points a failed solve may leave in x, a sample of the space: one true
\* variable off zero, and the further columns either all equal or each fitted
\* to its own rows where they allow a value
TrueProbes(nt) ==
    {[j \in 1..nt |-> IF j = i THEN t ELSE Q(0)] : i \in 1..nt, t \in ProbeVals}
Fitted(lp, nt, tp) ==
    [h \in HelperCols(lp, nt) |->
        IF Lowers(lp, nt, h, tp) # {} THEN RMax(Lowers(lp, nt, h, tp))
        ELSE IF Uppers(lp, nt, h, tp) # {} THEN RMin(Uppers(lp, nt, h, tp))
        ELSE Q(0)]
ProbePoints(lp, nt) ==
    {Extend(lp, nt, tp, [h \in HelperCols(lp, nt) |-> v]) :
        tp \in TrueProbes(nt), v \in HelperVals}
    \cup {Extend(lp, nt, tp, Fitted(lp, nt, tp)) : tp \in TrueProbes(nt)}

NoX == <<>>

\* the answers of solvers.lp for the problem lp
SolverAnswers(lp, nt) ==
    LET ftp == FeasibleTrue(lp, nt)
        sep == Separable(lp, nt)
        unb == UnboundedOver(lp, nt, ftp)
    IN  (IF sep /\ ftp # {} /\ ~unb
         THEN {[status |-> "optimal", x |-> x] : x \in OptimalOver(lp, nt, ftp)}
         ELSE {})
        \cup (IF ftp = {}
              THEN {[status |-> "primal infeasible", x |-> NoX]}
              ELSE {})
        \cup (IF sep /\ unb
              THEN {[status |-> "dual infeasible", x |-> x] : x \in ProbePoints(lp, nt)}
              ELSE {})
        \cup {[status |-> "unknown", x |-> x] : x \in ProbePoints(lp, nt)}

(***************************************************************************)
(* Inputs                                                                  *)
(***************************************************************************)
e1 == <<Q(1), Q(0)>>
e2 == <<Q(0), Q(1)>>
half == <<Rat(1, 2), Rat(1, 2)>>

\* Sorted transition tensors T[s][a][s'] over two states, action 0 (first)
\* the expert's.  In the first three state 2 is the goal of a two-cell
\* corridor and the expert steps to it and stays there.
\*   TensorA: the other action steps to state 1.
\*   TensorB: action 1 equals the expert's, action 2 steps to state 1.
\*   TensorC: action 1 steps to state 1, action 2 goes to state 2.
\*   TensorW: windy: the expert's step succeeds with probability 1/2.
TensorA == << <<e2, e1>>, <<e2, e1>> >>
TensorB == << <<e2, e2, e1>>, <<e2, e2, e1>> >>
TensorC == << <<e2, e1, e2>>, <<e2, e1, e2>> >>
TensorW == << <<half, e1>>, <<e2, half>> >>
Tensors == {TensorA, TensorB, TensorC, TensorW}

Discounts == {Rat(1, 2), Rat(9, 10)}
L1Weights == {Q(0), Q(1)}
RMaxValues == {Q(1), Q(2)}

LPInputs ==
    [T : Tensors, discount_factor : Discounts,
     l1_regularisation_weight : L1Weights, r_max : RMaxValues]

\* large_linear_programming over the corridor's two states.  otf[s][a + 1]
\* holds the states ordered_transition_function(s, a) can return;
\* basis_value_fn[s] the value of s under each of the two indicator basis
\* functions (expert policy, discount 1/2).
OtfA == [num_actions |-> 2, otf |-> << <<{2}, {1}>>, <<{2}, {1}>> >>]
OtfC == [num_actions |-> 3, otf |-> << <<{2}, {1}, {2}>>, <<{2}, {1}, {2}>> >>]
OtfW == [num_actions |-> 2, otf |-> << <<{1, 2}, {1}>>, <<{2}, {1, 2}>> >>]
BasisValues == << <<Q(1), Q(1)>>, <<Q(0), Q(2)>> >>

LLPInputs ==
    {[state_sample |-> <<1, 2>>, num_actions |-> o.num_actions, otf |-> o.otf,
      basis_value_fn |-> BasisValues, penalty_coefficient |-> pen,
      num_transition_samples |-> nts] :
        o \in {OtfA, OtfC, OtfW}, pen \in {Rat(1, 2), Q(1), Q(2)}, nts \in {1, 2}}

\* the transition draws of one run: draws[si][i][a + 1]
Draws(in) ==
    {dr \in [1..Len(in.state_sample) ->
               [1..in.num_transition_samples -> [1..in.num_actions -> {1, 2}]]] :
        \A si \in 1..Len(in.state_sample) : \A i \in 1..in.num_transition_samples :
            \A a \in 1..in.num_actions :
                dr[si][i][a] \in in.otf[in.state_sample[si]][a]}

\* trajectory_linear_programming on two states and two actions (0 stays,
\* 1 moves to the other state), T[s][a + 1] the sampler's answer; in
\* EnvGoal arriving in state 2 ends the episode.
EnvNoDone ==
    << <<[next |-> 1, done |-> FALSE], [next |-> 2, done |-> FALSE]>>,
       <<[next |-> 2, done |-> FALSE], [next |-> 1, done |-> FALSE]>> >>
EnvGoal ==
    << <<[next |-> 1, done |-> FALSE], [next |-> 2, done |-> TRUE]>>,
       <<[next |-> 2, done |-> TRUE], [next |-> 1, done |-> FALSE]>> >>
PhiIdentity == << <<Q(1), Q(0)>>, <<Q(0), Q(1)>> >>
DemoGo == << <<1, 1>>, <<2, 0>> >>
DemoShort == << <<1, 1>> >>
DemoFrom2 == << <<2, 0>>, <<2, 0>> >>
\* the policies random_policy and opt_pol hand back: stay, or go and stay
Policies == {<<0, 0>>, <<1, 0>>}

TLPBase ==
    [zeta |-> <<DemoGo>>, T |-> EnvNoDone, phi |-> PhiIdentity, gamma |-> Rat(1, 2),
     p |-> Q(2), m |-> 2, H |-> 2, tol |-> Q(1), has_on_iteration |-> TRUE]

TLPInputs ==
    {TLPBase,
     [TLPBase EXCEPT !.zeta = <<DemoShort>>],
     [TLPBase EXCEPT !.zeta = <<DemoGo, DemoGo>>],
     [TLPBase EXCEPT !.zeta = <<DemoGo, DemoFrom2>>],
     [TLPBase EXCEPT !.T = EnvGoal],
     [TLPBase EXCEPT !.p = Rat(1, 2)],
     [TLPBase EXCEPT !.m = 1, !.H = 1],
     [TLPBase EXCEPT !.tol = Rat(1, 1000)],
     [TLPBase EXCEPT !.has_on_iteration = FALSE]}

\* alpha = np.random.uniform(size=d) * 2 - 1: a sample of [-1, 1)^d
AlphaInits == {<<Q(0), Q(0)>>, <<Q(-1), Rat(1, 2)>>}

\* the most policies the candidate set holds before the run is cut off
MaxPolicies == 2

Inputs(f) == IF f = "lp" THEN LPInputs ELSE IF f = "llp" THEN LLPInputs ELSE TLPInputs

(***************************************************************************)
(* State                                                                   *)
(***************************************************************************)
NoLP == [c |-> <<>>, A |-> <<>>, cols |-> 0, b |-> <<>>, ok |-> TRUE]
NoRes == [status |-> "none", x |-> NoX]
NoRet == [kind |-> "none", error |-> "", value |-> <<>>, second |-> "none"]
NaN == <<0, 0>>
NoState == "none"
NoOut == [call |-> "none"]

\* the triple (c, A_ub, b_ub) as one problem, and back
CurLP == [c |-> c, A |-> A_ub.rows, cols |-> A_ub.cols, b |-> b_ub, ok |-> TRUE]

SetLP(lp) ==
    /\ c' = lp.c
    /\ A_ub' = [cols |-> lp.cols, rows |-> lp.A]
    /\ b_ub' = lp.b

Raise(error) ==
    /\ ret' = [kind |-> "raised", error |-> error, value |-> <<>>, second |-> "none"]
    /\ pc' = "done"

\* return value, second
Return(value, second) ==
    /\ ret' = [kind |-> "value", error |-> "", value |-> value, second |-> second]
    /\ pc' = "done"

\* apply one constraint block: numpy raises ValueError on mismatched shapes
Apply(lp, next, event) ==
    /\ log' = Append(log, event)
    /\ IF lp.ok
       THEN SetLP(lp) /\ pc' = next /\ ret' = ret
       ELSE UNCHANGED <<c, A_ub, b_ub>> /\ Raise("ValueError")

tlpvars == <<alpha, non_expert_policy_set, non_expert_policy_value_vectors>>

(***************************************************************************)
(* linear_programming, step by step                                        *)
(***************************************************************************)
LPCreate ==
    /\ fn = "lp" /\ pc = "start"
    /\ Apply(NewLP(NumStates(inp.T)), "lp_new", "create")
    /\ UNCHANGED <<gwvars, fn, inp, res, tlpvars>>

LPAddOptimalPolicy ==
    /\ fn = "lp" /\ pc = "lp_new"
    /\ Apply(add_optimal_policy_constraints(
                 inp.T, T_disc_inv(inp.T, inp.discount_factor), CurLP),
             "lp_opc", "add_optimal_policy_constraints")
    /\ UNCHANGED <<gwvars, fn, inp, res, tlpvars>>

LPAddCostlySingleStep ==
    /\ fn = "lp" /\ pc = "lp_opc"
    /\ Apply(add_costly_single_step_constraints(
                 inp.T, T_disc_inv(inp.T, inp.discount_factor), CurLP),
             "lp_css", "add_costly_single_step_constraints")
    /\ UNCHANGED <<gwvars, fn, inp, res, tlpvars>>

LPAddRmax ==
    /\ fn = "lp" /\ pc = "lp_css"
    /\ Apply(add_rmax_constraints(NumStates(inp.T), inp.r_max, CurLP),
             "lp_rmax", "add_rmax_constraints")
    /\ UNCHANGED <<gwvars, fn, inp, res, tlpvars>>

LPAddL1Norm ==
    /\ fn = "lp" /\ pc = "lp_rmax"
    /\ Apply(add_l1norm_constraints(
                 NumStates(inp.T), inp.l1_regularisation_weight, CurLP),
             "lp_built", "add_l1norm_constraints")
    /\ UNCHANGED <<gwvars, fn, inp, res, tlpvars>>

\* res = solvers.lp(matrix(c[0, :]), matrix(A_ub), matrix(b_ub))
LPSolve ==
    /\ fn = "lp" /\ pc = "lp_built"
    /\ \E answer \in SolverAnswers(CurLP, NumStates(inp.T)) : res' = answer
    /\ log' = Append(log, "solve")
    /\ pc' = "lp_solved"
    /\ UNCHANGED <<gwvars, fn, inp, c, A_ub, b_ub, ret, tlpvars>>

\* rewards = r_max * normalize(res['x'][0:n]).T; return rewards, res
\* Subscripting the missing x of a 'primal infeasible' answer raises
\* TypeError.  A constant x[0:n] makes normalize divide 0 by 0: numpy arrays
\* give NaN entries, cvxopt matrices raise ZeroDivisionError.
LPReturn ==
    /\ fn = "lp" /\ pc = "lp_solved"
    /\ LET n == NumStates(inp.T)
           vals == SubSeq(res.x, 1, n)
       IN  IF res.x = NoX THEN Raise("TypeError")
           ELSE IF RMin(Range(vals)) = RMax(Range(vals))
           THEN \/ Return([j \in 1..n |-> NaN], "res")
                \/ Raise("ZeroDivisionError")
           ELSE Return(MatScale(inp.r_max, <<normalize(vals)>>)[1], "res")
    /\ UNCHANGED <<gwvars, fn, inp, c, A_ub, b_ub, res, log, tlpvars>>

(***************************************************************************)
(* large_linear_programming, step by step                                  *)
(***************************************************************************)
NumBasisFunctions == Len(inp.basis_value_fn[inp.state_sample[1]])

\* assert penalty_coefficient >= 1, then the empty problem
LLPCreate ==
    /\ fn = "llp" /\ pc = "start"
    /\ IF RLe(Q(1), inp.penalty_coefficient)
       THEN Apply(NewLP(NumBasisFunctions), "llp_new", "create")
       ELSE Raise("AssertionError") /\ UNCHANGED <<c, A_ub, b_ub, log>>
    /\ UNCHANGED <<gwvars, fn, inp, res, tlpvars>>

LLPAddCostlySingleStep ==
    /\ fn = "llp" /\ pc = "llp_new"
    /\ \E draws \in Draws(inp) :
          Apply(llp_add_costly_single_step_constraints(inp, draws, CurLP),
                "llp_css", "add_costly_single_step_constraints")
    /\ UNCHANGED <<gwvars, fn, inp, res, tlpvars>>

LLPAddAlphaSize ==
    /\ fn = "llp" /\ pc = "llp_css"
    /\ Apply(llp_add_alpha_size_constraints(NumBasisFunctions, CurLP),
             "llp_built", "add_alpha_size_constraints")
    /\ UNCHANGED <<gwvars, fn, inp, res, tlpvars>>

LLPSolve ==
    /\ fn = "llp" /\ pc = "llp_built"
    /\ \E answer \in SolverAnswers(CurLP, NumBasisFunctions) : res' = answer
    /\ log' = Append(log, "solve")
    /\ pc' = "llp_solved"
    /\ UNCHANGED <<gwvars, fn, inp, c, A_ub, b_ub, ret, tlpvars>>

\* alpha_vector = np.array(res['x'][0:num_basis_functions].T)
LLPReturn ==
    /\ fn = "llp" /\ pc = "llp_solved"
    /\ IF res.x = NoX THEN Raise("TypeError")
       ELSE Return(SubSeq(res.x, 1, NumBasisFunctions), "res")
    /\ UNCHANGED <<gwvars, fn, inp, c, A_ub, b_ub, res, log, tlpvars>>

(***************************************************************************)
(* trajectory_linear_programming, step by step                             *)
(***************************************************************************)
\* Entry: the start-state check subscripts an int for every demonstration
\* but the last (range(len(zeta) - 1)), which raises TypeError; then the
\* random alpha and the candidate set holding one random policy.
\* variant: the candidate set starts with the random policy held twice
TLPEntry_two_policies ==
    /\ fn = "tlp" /\ pc = "start"
    /\ IF Len(inp.zeta) - 1 > 0
       THEN Raise("TypeError") /\ UNCHANGED <<tlpvars, log>>
       ELSE /\ alpha' \in AlphaInits
            /\ \E policy \in Policies :
                 /\ non_expert_policy_set' = <<policy, policy>>
                 /\ non_expert_policy_value_vectors' =
                        <<emperical_policy_value(inp, mc_trajectories(inp, policy))>>
            /\ log' = Append(log, "random_policy")
            /\ pc' = "tlp_loop"
            /\ ret' = ret
    /\ UNCHANGED <<gwvars, fn, inp, c, A_ub, b_ub, res>>

TLPEntry ==
    /\ fn = "tlp" /\ pc = "start"
    /\ IF Len(inp.zeta) - 1 > 0
       THEN Raise("TypeError") /\ UNCHANGED <<tlpvars, log>>
       ELSE /\ alpha' \in AlphaInits
            /\ \E policy \in Policies :
                 /\ non_expert_policy_set' = <<policy>>
                 /\ non_expert_policy_value_vectors' =
                        <<emperical_policy_value(inp, mc_trajectories(inp, policy))>>
            /\ log' = Append(log, "random_policy")
            /\ pc' = "tlp_loop"
            /\ ret' = ret
    /\ UNCHANGED <<gwvars, fn, inp, c, A_ub, b_ub, res>>

TLPCreate ==
    /\ fn = "tlp" /\ pc = "tlp_loop"
    /\ Apply(NewLP(Len(inp.phi)), "tlp_new", "create")
    /\ UNCHANGED <<gwvars, fn, inp, res, tlpvars>>

TLPAddOptimalExpert ==
    /\ fn = "tlp" /\ pc = "tlp_new"
    /\ Apply(add_optimal_expert_constraints(inp, non_expert_policy_value_vectors, CurLP),
             "tlp_oe", "add_optimal_expert_constraints")
    /\ UNCHANGED <<gwvars, fn, inp, res, tlpvars>>

TLPAddAlphaSize ==
    /\ fn = "tlp" /\ pc = "tlp_oe"
    /\ Apply(tlp_add_alpha_size_constraints(Len(inp.phi), CurLP),
             "tlp_built", "add_alpha_size_constraints")
    /\ UNCHANGED <<gwvars, fn, inp, res, tlpvars>>

TLPSolve ==
    /\ fn = "tlp" /\ pc = "tlp_built"
    /\ \E answer \in SolverAnswers(CurLP, Len(inp.phi)) : res' = answer
    /\ log' = Append(log, "solve")
    /\ pc' = "tlp_solved"
    /\ UNCHANGED <<gwvars, fn, inp, c, A_ub, b_ub, ret, tlpvars>>

\* variant: the loop also ends after its second pass
TLPCheck_capped ==
    /\ fn = "tlp" /\ pc = "tlp_solved"
    /\ LET alpha_new == SubSeq(res.x, 1, Len(inp.phi))
           called == IF inp.has_on_iteration THEN <<"on_iteration">> ELSE <<>>
       IN  IF res.x = NoX
           THEN Raise("TypeError") /\ UNCHANGED <<tlpvars, log>>
           ELSE IF Converged(alpha, alpha_new, inp.tol)
                   \/ Len(non_expert_policy_set) >= 2
           THEN /\ Return(alpha, "None")
                /\ log' = log \o called
                /\ UNCHANGED tlpvars
           ELSE /\ Len(non_expert_policy_set) < MaxPolicies
                /\ alpha' = alpha_new
                /\ \E policy \in Policies :
                     /\ non_expert_policy_set' = Append(non_expert_policy_set, policy)
                     /\ non_expert_policy_value_vectors' =
                            Append(non_expert_policy_value_vectors,
                                   emperical_policy_value(inp, mc_trajectories(inp, policy)))
                /\ log' = log \o called \o <<"opt_pol", "mc_trajectories">>
                /\ pc' = "tlp_loop"
                /\ ret' = ret
    /\ UNCHANGED <<gwvars, fn, inp, c, A_ub, b_ub, res>>

\* variant: on_iteration is called only when the loop goes round again
TLPCheck_late_callback ==
    /\ fn = "tlp" /\ pc = "tlp_solved"
    /\ LET alpha_new == SubSeq(res.x, 1, Len(inp.phi))
           called == IF inp.has_on_iteration THEN <<"on_iteration">> ELSE <<>>
       IN  IF res.x = NoX
           THEN Raise("TypeError") /\ UNCHANGED <<tlpvars, log>>
           ELSE IF Converged(alpha, alpha_new, inp.tol)
           THEN /\ Return(alpha, "None")
                /\ UNCHANGED <<tlpvars, log>>
           ELSE /\ Len(non_expert_policy_set) < MaxPolicies
                /\ alpha' = alpha_new
                /\ \E policy \in Policies :
                     /\ non_expert_policy_set' = Append(non_expert_policy_set, policy)
                     /\ non_expert_policy_value_vectors' =
                            Append(non_expert_policy_value_vectors,
                                   emperical_policy_value(inp, mc_trajectories(inp, policy)))
                /\ log' = log \o called \o <<"opt_pol", "mc_trajectories">>
                /\ pc' = "tlp_loop"
                /\ ret' = ret
    /\ UNCHANGED <<gwvars, fn, inp, c, A_ub, b_ub, res>>

\* alpha_new = res['x'][0:d].T; on_iteration(alpha_new); the convergence
\* test; on convergence "return alpha, result" with result still None;
\* otherwise alpha = alpha_new and opt_pol(alpha) joins the candidate set
\* with the value of its m rollouts.
TLPCheck ==
    /\ fn = "tlp" /\ pc = "tlp_solved"
    /\ LET alpha_new == SubSeq(res.x, 1, Len(inp.phi))
           called == IF inp.has_on_iteration THEN <<"on_iteration">> ELSE <<>>
       IN  IF res.x = NoX
           THEN Raise("TypeError") /\ UNCHANGED <<tlpvars, log>>
           ELSE IF Converged(alpha, alpha_new, inp.tol)
           THEN /\ Return(alpha, "None")
                /\ log' = log \o called
                /\ UNCHANGED tlpvars
           ELSE /\ Len(non_expert_policy_set) < MaxPolicies
                /\ alpha' = alpha_new
                /\ \E policy \in Policies :
                     /\ non_expert_policy_set' = Append(non_expert_policy_set, policy)
                     /\ non_expert_policy_value_vectors' =
                            Append(non_expert_policy_value_vectors,
                                   emperical_policy_value(inp, mc_trajectories(inp, policy)))
                /\ log' = log \o called \o <<"opt_pol", "mc_trajectories">>
                /\ pc' = "tlp_loop"
                /\ ret' = ret
    /\ UNCHANGED <<gwvars, fn, inp, c, A_ub, b_ub, res>>

Init ==
    /\ fn \in {"lp", "llp", "tlp"}
    /\ inp \in Inputs(fn)
    /\ pc = "start"
    /\ c = <<>> /\ A_ub = [cols |-> 0, rows |-> <<>>] /\ b_ub = <<>>
    /\ res = NoRes /\ ret = NoRet /\ log = <<>>
    /\ alpha = <<>>
    /\ non_expert_policy_set = <<>>
    /\ non_expert_policy_value_vectors = <<>>
    /\ self_state = NoState /\ out = NoOut

Next ==
    \/ LPCreate
    \/ LPAddOptimalPolicy
    \/ LPAddCostlySingleStep
    \/ LPAddRmax
    \/ LPAddL1Norm
    \/ LPSolve
    \/ LPReturn
    \/ LLPCreate
    \/ LLPAddCostlySingleStep
    \/ LLPAddAlphaSize
    \/ LLPSolve
    \/ LLPReturn
    \/ TLPEntry
    \/ TLPCreate
    \/ TLPAddOptimalExpert
    \/ TLPAddAlphaSize
    \/ TLPSolve
    \/ TLPCheck

Spec == Init /\ [][Next]_vars

(***************************************************************************)
(* GridWorldDiscEnv: the discrete grid world the formulators are run on.   *)
(* A state is an index y * size + x; self_state is self.state and out is   *)
(* what the last call handed back.                                         *)
(***************************************************************************)
EDGEMODE_CLAMP == 0
EDGEMODE_WRAP == 1

ACTION_NORTH == 0
ACTION_EAST == 1
ACTION_SOUTH == 2
ACTION_WEST == 3
ACTION_NOTHING == 4

\* min(max(x, 0), size - 1) when clamping, x % size when wrapping
_apply_edge_mode(env, x, y) ==
    LET edge(v) == IF env.edge_mode = EDGEMODE_CLAMP
                   THEN (IF v < 0 THEN 0
                         ELSE IF v > env.size - 1 THEN env.size - 1 ELSE v)
                   ELSE v % env.size
    IN  <<edge(x), edge(y)>>

_xy2s(env, x, y) ==
    _apply_edge_mode(env, x, y)[2] * env.size + _apply_edge_mode(env, x, y)[1]

_s2xy(env, s) == <<s % env.size, s \div env.size>>

\* the indices of self._S
_S(env) == 0..(env.size * env.size - 1)

\* self._A, and its indices
_A == << <<0, 1>>, <<1, 0>>, <<0, -1>>, <<-1, 0>>, <<0, 0>> >>

ActionIndices == 0..(Len(_A) - 1)

\* self._xy2s(x + dx, y + dy) for the move of action ai from state si
MoveTarget(env, si, ai) ==
    _xy2s(env, _s2xy(env, si)[1] + _A[ai + 1][1], _s2xy(env, si)[2] + _A[ai + 1][2])

\* transition_tensor[si, ai, sj]: 1 - wind on the target of ai, and
\* wind / len(_A) on the target of each of the wind actions
transition_tensor(env) ==
    [si \in _S(env) |-> [ai \in ActionIndices |-> [sj \in _S(env) |->
        RAdd(IF MoveTarget(env, si, ai) = sj THEN RSub(Q(1), env.wind) ELSE Q(0),
             RMul(Q(Cardinality({w \in ActionIndices : MoveTarget(env, si, w) = sj})),
                  RDiv(env.wind, Q(Len(_A)))))]]]

_initial_state(env) == _xy2s(env, env.initial_state[1], env.initial_state[2])

_goal_states(env) ==
    [i \in 1..Len(env.goal_states) |->
        _xy2s(env, env.goal_states[i][1], env.goal_states[i][2])]

\* self._done(), for self.state = s
_done(env, s) == \E i \in 1..Len(env.goal_states) : _goal_states(env)[i] = s

\* Grid worlds: the constructor's defaults on a 3 x 3 grid (the default goal
\* (4, 4) lies off the grid and passes through the edge mode), a wrapping
\* grid with the goal in a corner, two goals, windy 2 x 2 grids, other
\* rewards and a start off the grid.
GridInputs ==
    LET defaults ==
            [size |-> 3, wind |-> Q(0), edge_mode |-> EDGEMODE_CLAMP,
             initial_state |-> <<0, 0>>, goal_states |-> << <<4, 4>> >>,
             per_step_reward |-> 0, goal_reward |-> 1]
    IN  {defaults,
         [defaults EXCEPT !.edge_mode = EDGEMODE_WRAP, !.goal_states = << <<2, 0>> >>],
         [defaults EXCEPT !.goal_states = << <<2, 0>>, <<0, 2>> >>],
         [defaults EXCEPT !.size = 2, !.wind = Rat(1, 2)],
         [defaults EXCEPT !.size = 2, !.wind = Rat(1, 2), !.edge_mode = EDGEMODE_WRAP,
                          !.initial_state = <<-1, 5>>],
         [defaults EXCEPT !.size = 2, !.per_step_reward = -1, !.goal_reward = 10]}

\* the policy get_optimal_policy returns. Its goals are the goal states as
\* (x, y) pairs and, on a wrapping grid, six copies of each goal shifted by
\* the grid size; the nearest goal is the first at the smallest Euclidean
\* distance (squared here, to stay exact); the coin flipped on |dx| = |dy| is
\* overwritten by the test that follows it, so a tie moves vertically
get_optimal_policy(env) ==
    LET goals == [i \in 1..Len(env.goal_states) |-> _s2xy(env, _goal_states(env)[i])]
        shifts == << <<-env.size, -env.size>>, <<0, -env.size>>, <<-env.size, 0>>,
                     <<env.size, env.size>>, <<0, env.size>>, <<env.size, 0>> >>
        shifted == [n \in 1..(6 * Len(goals)) |->
                      LET g == goals[((n - 1) \div 6) + 1]
                          shift == shifts[((n - 1) % 6) + 1]
                      IN  <<g[1] + shift[1], g[2] + shift[2]>>]
        virtual_goals == IF env.edge_mode = EDGEMODE_WRAP THEN goals \o shifted
                         ELSE goals
        distance(g, s) ==
            (g[1] - _s2xy(env, s)[1]) * (g[1] - _s2xy(env, s)[1])
                + (g[2] - _s2xy(env, s)[2]) * (g[2] - _s2xy(env, s)[2])
        first(s) ==
            CHOOSE i \in 1..Len(virtual_goals) :
               /\ \A j \in 1..Len(virtual_goals) :
                     distance(virtual_goals[i], s) <= distance(virtual_goals[j], s)
               /\ \A j \in 1..(i - 1) :
                     distance(virtual_goals[j], s) > distance(virtual_goals[i], s)
        nearest_goal(s) == IF Len(virtual_goals) = 1 THEN virtual_goals[1]
                           ELSE virtual_goals[first(s)]
    IN  [s \in _S(env) |->
            LET dx == nearest_goal(s)[1] - _s2xy(env, s)[1]
                dy == nearest_goal(s)[2] - _s2xy(env, s)[2]
            IN  IF dx = 0 /\ dy = 0 THEN ACTION_NOTHING
                ELSE IF Abs(dx) > Abs(dy)
                THEN (IF dx > 0 THEN ACTION_EAST ELSE ACTION_WEST)
                ELSE (IF dy > 0 THEN ACTION_NORTH ELSE ACTION_SOUTH)]

\* the action rows of one state after the swap for the policy's action: tmp
\* is a numpy view, so it reads row 0 (and row 1) after row 0 was overwritten
ordered_rows(rows, action) ==
    LET first(a) == [rows EXCEPT ![0] = rows[a]]
    IN  CASE action = ACTION_NORTH -> rows
          [] action = ACTION_EAST ->
                [first(1) EXCEPT ![1] = first(1)[0]]
          [] action = ACTION_SOUTH ->
                [first(2) EXCEPT ![1] = first(2)[0]]
          [] action = ACTION_WEST ->
                [first(3) EXCEPT ![1] = first(3)[0], ![2] = first(3)[1]]
          [] OTHER -> rows

get_ordered_transition_tensor(env, policy) ==
    [si \in _S(env) |-> ordered_rows(transition_tensor(env)[si], policy[si])]

\* the policies handed to get_ordered_transition_tensor: the optimal one
\* and one that uses every action
GridPolicies(env) ==
    {get_optimal_policy(env), [s \in _S(env) |-> s % Len(_A)]}

\* variant: the goal reward is left out
step_result_no_goal_reward(env, new_state) ==
    [state |-> new_state,
     reward |-> env.per_step_reward,
     done |-> _done(env, new_state)]

\* step: what is returned with the new state
step_result(env, new_state) ==
    [state |-> new_state,
     reward |-> IF _done(env, new_state)
                THEN env.per_step_reward + env.goal_reward
                ELSE env.per_step_reward,
     done |-> _done(env, new_state)]

\* the states np.random.choice can draw for action a in state s
step_outcomes(env, s, a) ==
    {n \in _S(env) : RLt(Q(0), transition_tensor(env)[s][a][n])}

\* next_state_values.index(max(next_state_values))
greedy_action(next_state_values) ==
    CHOOSE a \in ActionIndices :
       /\ \A b \in ActionIndices : next_state_values[b + 1] <= next_state_values[a + 1]
       /\ \A b \in 0..(a - 1) : next_state_values[b + 1] < next_state_values[a + 1]

\* value vectors: state 1 or the last state worth 1, or each state worth
\* its index
ValueVectors(env) ==
    {[s \in _S(env) |-> IF s = g THEN 1 ELSE 0] : g \in {1, env.size * env.size - 1}}
        \cup {[s \in _S(env) |-> s]}

(***************************************************************************)
(* GridWorldDiscEnv, call by call                                          *)
(***************************************************************************)
formulator_vars == <<fn, inp, c, A_ub, b_ub, res, ret, log, tlpvars>>

\* reset(): self.state = self._initial_state, which is returned
GWReset ==
    /\ fn = "gw" /\ pc = "gw"
    /\ self_state' = _initial_state(inp)
    /\ out' = [call |-> "reset", state |-> _initial_state(inp)]
    /\ UNCHANGED <<pc, formulator_vars>>

\* step(action): the new state is drawn from the action's row of the tensor,
\* whether or not the episode had already ended
GWStep ==
    /\ fn = "gw" /\ pc = "gw"
    /\ \E action \in ActionIndices :
         \E new_state \in step_outcomes(inp, self_state, action) :
            /\ self_state' = new_state
            /\ out' = [call |-> "step", from |-> self_state, action |-> action,
                       result |-> step_result(inp, new_state)]
    /\ UNCHANGED <<pc, formulator_vars>>

GWGetOptimalPolicy ==
    /\ fn = "gw" /\ pc = "gw"
    /\ out' = [call |-> "get_optimal_policy", policy |-> get_optimal_policy(inp)]
    /\ UNCHANGED <<self_state, pc, formulator_vars>>

GWGetOrderedTransitionTensor ==
    /\ fn = "gw" /\ pc = "gw"
    /\ \E policy \in GridPolicies(inp) :
         out' = [call |-> "get_ordered_transition_tensor", policy |-> policy,
                 tensor |-> get_ordered_transition_tensor(inp, policy)]
    /\ UNCHANGED <<self_state, pc, formulator_vars>>

\* greedy_policy(value_vector)(s), pass by pass: the call, with the local s
\* holding the argument and next_state_values empty
GWGreedyPolicyCall ==
    /\ fn = "gw" /\ pc = "gw"
    /\ \E value_vector \in ValueVectors(inp), s \in _S(inp) :
         out' = [call |-> "greedy_policy", value_vector |-> value_vector,
                 argument |-> s, s |-> s, next_state_values |-> <<>>]
    /\ pc' = "gw_greedy"
    /\ UNCHANGED <<self_state, formulator_vars>>

\* one pass of its loop: self.reset(); self.state = s;
\* s, r, d, i = self.step(action), which assigns the new state to s itself
GWGreedyPolicyTry ==
    /\ fn = "gw" /\ pc = "gw_greedy"
    /\ Len(out.next_state_values) < Len(_A)
    /\ \E new_state \in step_outcomes(inp, out.s, Len(out.next_state_values)) :
         /\ self_state' = step_result(inp, new_state).state
         /\ out' = [out EXCEPT !.s = new_state,
                               !.next_state_values =
                                   Append(@, out.value_vector[new_state])]
    /\ UNCHANGED <<pc, formulator_vars>>

\* after the loop: the index of the first largest value is returned
GWGreedyPolicyReturn ==
    /\ fn = "gw" /\ pc = "gw_greedy"
    /\ Len(out.next_state_values) = Len(_A)
    /\ out' = [call |-> "greedy_policy_returned", value_vector |-> out.value_vector,
               argument |-> out.argument,
               action |-> greedy_action(out.next_state_values)]
    /\ pc' = "gw"
    /\ UNCHANGED <<self_state, formulator_vars>>

\* the constructor ends with self.reset()
GridInit ==
    /\ fn = "gw"
    /\ inp \in GridInputs
    /\ pc = "gw"
    /\ c = <<>> /\ A_ub = [cols |-> 0, rows |-> <<>>] /\ b_ub = <<>>
    /\ res = NoRes /\ ret = NoRet /\ log = <<>>
    /\ alpha = <<>>
    /\ non_expert_policy_set = <<>>
    /\ non_expert_policy_value_vectors = <<>>
    /\ self_state = _initial_state(inp)
    /\ out = NoOut

GridNext ==
    \/ GWReset
    \/ GWStep
    \/ GWGetOptimalPolicy
    \/ GWGetOrderedTransitionTensor
    \/ GWGreedyPolicyCall
    \/ GWGreedyPolicyTry
    \/ GWGreedyPolicyReturn

GridSpec == GridInit /\ [][GridNext]_vars

(***************************************************************************)
(* Properties                                                              *)
(***************************************************************************)
LPn == NumStates(inp.T)
LPk == NumActions(inp.T)
LPTinv == T_disc_inv(inp.T, inp.discount_factor)

\* the dominance margin of the expert over Python action i at state s under
\* the reward R: ((T_0 - T_i)(I - gamma T_0)^-1 R)[s]
Margin(i, s, R) == RNeg(Dot(ConstraintRows(inp.T, LPTinv, i)[s], R))

IsConstant(v) == \A i, j \in 1..Len(v) : v[i] = v[j]
Solved == pc \in {"lp_solved", "llp_solved", "tlp_solved"}
HasX == res.status # "none" /\ res.x # NoX

\* C1: after PolicyOptimality the problem has (k-1)*n rows and still n
\* columns, and every reward satisfying the rows makes the expert action at
\* least as good as each non-expert action 1..k-1 at every state.
C1_ExpertDominatesEveryAlternative ==
    (fn = "lp" /\ pc = "lp_opc") =>
        /\ Len(A_ub.rows) = (LPk - 1) * LPn
        /\ A_ub.cols = LPn /\ Len(c) = LPn
        /\ \A R \in TruePoints(LPn) :
              Feasible(CurLP, R) =>
                  \A i \in 1..(LPk - 1) : \A s \in 1..LPn : RLe(Q(0), Margin(i, s, R))

\* C2: when some reward has a strictly positive dominance margin somewhere,
\* no optimum of the tabular problem has a constant reward vector.
PositiveMarginExists ==
    \E R \in TruePoints(LPn) : \E i \in 1..(LPk - 1) : \E s \in 1..LPn :
        RLt(Q(0), Margin(i, s, R))

C2_ConstantRewardNotOptimal ==
    (fn = "lp" /\ pc = "lp_solved" /\ res.status = "optimal" /\ PositiveMarginExists)
        => ~IsConstant(SubSeq(res.x, 1, LPn))

\* C3: a formulator that got a non-optimal solver status ends in a solver
\* failure and returns no vector.
C3_NonOptimalStatusIsReported ==
    (pc = "done" /\ res.status \notin {"none", "optimal"})
        => (ret.kind = "raised" /\ ret.error = "SolverFailure")

\* C4: linear_programming ends in a DegenerateNormalization failure when the
\* first n components of the solution are all equal.
C4_DegenerateNormalizationReported ==
    (fn = "lp" /\ pc = "done" /\ HasX /\ IsConstant(SubSeq(res.x, 1, LPn)))
        => (ret.kind = "raised" /\ ret.error = "DegenerateNormalization")

\* Deterministic single-goal instances whose expert takes a shortest path
Deterministic(T) ==
    \A s \in 1..Len(T) : \A a \in 1..Len(T[s]) : \A t \in 1..Len(T[s][a]) :
        T[s][a][t] \in {Q(0), Q(1)}
Succ(T, s, a) == CHOOSE t \in 1..Len(T) : T[s][a][t] = Q(1)
Least(S) == CHOOSE x \in S : \A y \in S : x <= y

RECURSIVE ExpertSteps(_, _, _, _)
ExpertSteps(T, s, g, fuel) ==
    IF s = g THEN 0
    ELSE IF fuel = 0 THEN Len(T) + 1
    ELSE 1 + ExpertSteps(T, Succ(T, s, 1), g, fuel - 1)

RECURSIVE MinSteps(_, _, _, _)
MinSteps(T, s, g, fuel) ==
    IF s = g THEN 0
    ELSE IF fuel = 0 THEN Len(T) + 1
    ELSE 1 + Least({MinSteps(T, Succ(T, s, a), g, fuel - 1) : a \in 1..Len(T[s])})

IsGoalOf(T, g) ==
    /\ Deterministic(T)
    /\ Succ(T, g, 1) = g
    /\ \A s \in 1..Len(T) :
          /\ ExpertSteps(T, s, g, Len(T)) <= Len(T)
          /\ ExpertSteps(T, s, g, Len(T)) = MinSteps(T, s, g, Len(T))

\* C5: on such an instance every reward vector linear_programming returns
\* for an optimum is largest at the goal state.
C5_GoalRewardIsMaximal ==
    (fn = "lp" /\ pc = "done" /\ res.status = "optimal" /\ ret.kind = "value"
        /\ ~IsConstant(SubSeq(res.x, 1, LPn)))
        => \A g \in 1..LPn :
              IsGoalOf(inp.T, g) => \A s \in 1..LPn : RLe(ret.value[s], ret.value[g])

\* the 2n rows of the L1 block, the last rows of the finished problem
L1Rows == SubSeq(A_ub.rows, Len(A_ub.rows) - 2 * LPn + 1, Len(A_ub.rows))
L1RowsHold(x) == \A r \in 1..Len(L1Rows) : RLe(Dot(L1Rows[r], x), Q(0))
LPAux(x, i) == x[2 * LPn + i]
LPBuilt == fn = "lp" /\ pc \in {"lp_built", "lp_solved"}

\* x, zero helpers, aux
L1Point(x, aux) == x \o Zeros(LPn) \o aux

\* C6 as stated: the L1 rows admit x = [-0.5, 0.3], aux = [0.5, 0.3].
C6_NegativePointFeasible ==
    (LPBuilt /\ LPn = 2)
        => L1RowsHold(L1Point(<<Rat(-1, 2), Rat(3, 10)>>, <<Rat(1, 2), Rat(3, 10)>>))

\* C6, amended: the block adds n columns and 2n rows; the rows hold exactly
\* at the points with 0 <= x_i <= aux_i for every i.  So they reject
\* x = [-0.5, 0.3], aux = [0.5, 0.3], admit x = [0.5, 0.3], aux = [0.5, 0.3],
\* and reject every point with some aux_i < |x_i|.
C6_L1RowsEnforce ==
    /\ LPBuilt =>
          /\ A_ub.cols = 3 * LPn /\ Len(c) = 3 * LPn
          /\ \A i \in 1..LPn : c[2 * LPn + i] = inp.l1_regularisation_weight
    /\ (LPBuilt /\ LPn = 2) =>
          /\ ~L1RowsHold(L1Point(<<Rat(-1, 2), Rat(3, 10)>>, <<Rat(1, 2), Rat(3, 10)>>))
          /\ L1RowsHold(L1Point(<<Rat(1, 2), Rat(3, 10)>>, <<Rat(1, 2), Rat(3, 10)>>))
    /\ (fn = "lp" /\ pc = "lp_solved" /\ HasX) =>
          /\ L1RowsHold(res.x) <=>
                \A i \in 1..LPn : RLe(Q(0), res.x[i]) /\ RLe(res.x[i], LPAux(res.x, i))
          /\ (\E i \in 1..LPn : RLt(LPAux(res.x, i), RAbs(res.x[i]))) => ~L1RowsHold(res.x)

C6_Witness ==
    /\ fn = "lp" /\ pc = "lp_solved" /\ HasX /\ LPn = 2
    /\ ~L1RowsHold(res.x)
    /\ \E i \in 1..LPn : RLt(LPAux(res.x, i), RAbs(res.x[i]))

\* C7: every feasible point of the finished tabular problem has all n reward
\* variables non-negative, whatever the L1 weight.
C7_RewardsNonNegative ==
    (fn = "lp" /\ pc = "lp_solved" /\ HasX /\ Feasible(CurLP, res.x))
        => \A i \in 1..LPn : RLe(Q(0), res.x[i])

C7_Witness ==
    /\ fn = "lp" /\ pc = "lp_solved" /\ HasX /\ Feasible(CurLP, res.x)
    /\ inp.l1_regularisation_weight = Q(0)
    /\ res.status = "unknown"
    /\ \E i \in 1..LPn : RLt(Q(0), res.x[i])

\* the true variables, their bound and the bound rows of each formulator
NumTrue ==
    IF fn = "lp" THEN LPn
    ELSE IF fn = "llp" THEN NumBasisFunctions
    ELSE Len(inp.phi)
Bound == IF fn = "lp" THEN inp.r_max ELSE Q(1)
BoundRowsIn ==
    IF fn = "lp"
    THEN {r \in 1..Len(A_ub.rows) :
            2 * (LPk - 1) * LPn < r /\ r <= 2 * (LPk - 1) * LPn + LPn}
    ELSE {r \in 1..Len(A_ub.rows) : r > Len(A_ub.rows) - 2 * NumTrue}
Built == pc \in {"lp_built", "llp_built", "tlp_built"}

\* C8: every feasible point of a finished problem has |x_i| <= bound for each
\* true variable, and the bound rows are zero on every further column.
C8_TrueVariablesBounded ==
    /\ (Solved /\ HasX /\ Feasible(CurLP, res.x))
          => \A i \in 1..NumTrue : RLe(RAbs(res.x[i]), Bound)
    /\ (Built \/ Solved)
          => \A r \in BoundRowsIn :
                /\ b_ub[r] = Bound
                /\ \A j \in (NumTrue + 1)..A_ub.cols : A_ub.rows[r][j] = Q(0)
                /\ \E i \in 1..NumTrue :
                      /\ A_ub.rows[r][i] \in {Q(1), Q(-1)}
                      /\ \A j \in 1..NumTrue : j # i => A_ub.rows[r][j] = Q(0)

C8_Witness ==
    /\ fn = "tlp" /\ Solved /\ HasX /\ Feasible(CurLP, res.x)
    /\ res.status = "unknown"
    /\ RAbs(res.x[1]) = Bound
    /\ Len(non_expert_policy_set) = 2

\* C9: the triple keeps columns(A) = len(c) and rows(A) = len(b) from the
\* empty problem on, no block fails on shapes, and a block only appends
\* columns on the right and rows below, so the true variables stay the first
\* columns.
ShapeInvariant ==
    /\ Len(c) = A_ub.cols
    /\ Len(A_ub.rows) = Len(b_ub)
    /\ \A r \in 1..Len(A_ub.rows) : Len(A_ub.rows[r]) = A_ub.cols
    /\ c # <<>> => A_ub.cols >= NumTrue
    /\ ret.error # "ValueError"

BlockAppends ==
    (pc' \notin {"lp_new", "llp_new", "tlp_new"}) =>
        /\ Len(c') >= Len(c) /\ SubSeq(c', 1, Len(c)) = c
        /\ Len(b_ub') >= Len(b_ub) /\ SubSeq(b_ub', 1, Len(b_ub)) = b_ub
        /\ Len(A_ub'.rows) >= Len(A_ub.rows)
        /\ \A r \in 1..Len(A_ub.rows) :
              SubSeq(A_ub'.rows[r], 1, A_ub.cols) = A_ub.rows[r]

C9_LPShapePreserved == []ShapeInvariant /\ [][BlockAppends]_vars

C9_Witness ==
    /\ fn = "tlp" /\ pc = "tlp_built"
    /\ Len(non_expert_policy_set) = 2
    /\ A_ub.cols = Len(inp.phi) + 2 /\ Len(A_ub.rows) = 4 + 2 * Len(inp.phi)

\* C10: linear_programming applies PolicyOptimality, CostlySingleStep,
\* BoundConstraint, L1Regularization once each in this order, then solves
\* once; the solved problem has 3n columns and 2(k-1)n + 3n rows.
LPTrace ==
    <<"create", "add_optimal_policy_constraints",
      "add_costly_single_step_constraints", "add_rmax_constraints",
      "add_l1norm_constraints", "solve">>

C10_PipelineOrder ==
    fn = "lp" =>
        /\ Len(log) <= Len(LPTrace) /\ log = SubSeq(LPTrace, 1, Len(log))
        /\ pc \in {"lp_solved", "done"} =>
              /\ log = LPTrace
              /\ Len(c) = 3 * LPn /\ A_ub.cols = 3 * LPn
              /\ Len(A_ub.rows) = (LPk - 1) * LPn + (LPk - 1) * LPn + LPn + 2 * LPn
              /\ Len(b_ub) = Len(A_ub.rows)

C10_Witness ==
    fn = "lp" /\ pc = "done" /\ LPk = 3 /\ ret.kind = "value" /\ res.status = "optimal"

\* C11: for r_max > 0 and a solution whose first n components are not all
\* equal, linear_programming returns n rewards in [0, r_max], 0 where the
\* solution is smallest, r_max where it is largest, in the solution's order.
C11_RewardsRescaled ==
    (fn = "lp" /\ pc = "done" /\ HasX /\ RLt(Q(0), inp.r_max)
        /\ ~IsConstant(SubSeq(res.x, 1, LPn)))
        => LET x == SubSeq(res.x, 1, LPn)
           IN  /\ ret.kind = "value" /\ ret.second = "res"
               /\ Len(ret.value) = LPn
               /\ \A i \in 1..LPn :
                     /\ RLe(Q(0), ret.value[i]) /\ RLe(ret.value[i], inp.r_max)
                     /\ x[i] = RMin(Range(x)) => ret.value[i] = Q(0)
                     /\ x[i] = RMax(Range(x)) => ret.value[i] = inp.r_max
               /\ \A i, j \in 1..LPn :
                     RLe(x[i], x[j]) <=> RLe(ret.value[i], ret.value[j])

C11_Witness ==
    /\ fn = "lp" /\ pc = "done" /\ HasX /\ inp.r_max = Q(2)
    /\ RLt(res.x[1], Q(0)) /\ res.x[2] = Q(0)
    /\ ret.kind = "value" /\ ret.value = <<Q(0), Q(2)>>

\* C12: the CostlySingleStep block adds n helper columns of weight -1 and
\* (k-1)*n rows; the row of alternative i (1..k-1) and state s has +1 in the
\* helper column of s, 0 in the other helper columns, the negated margin of
\* alternative i at s on the reward columns, and right-hand side 0.
C12_CostlySingleStepBlock ==
    (fn = "lp" /\ pc = "lp_css") =>
        LET base == (LPk - 1) * LPn
        IN  /\ A_ub.cols = 2 * LPn /\ Len(c) = 2 * LPn
            /\ \A s \in 1..LPn : c[LPn + s] = Q(-1)
            /\ Len(A_ub.rows) = base + (LPk - 1) * LPn
            /\ Len(b_ub) = Len(A_ub.rows)
            /\ \A i \in 1..(LPk - 1) : \A s \in 1..LPn :
                  LET row == A_ub.rows[base + (i - 1) * LPn + s]
                  IN  /\ \A t \in 1..LPn :
                            row[LPn + t] = IF t = s THEN Q(1) ELSE Q(0)
                      /\ SubSeq(row, 1, LPn) = ConstraintRows(inp.T, LPTinv, i)[s]
                      /\ b_ub[base + (i - 1) * LPn + s] = Q(0)

\* the sampled problem's sizes
LLPd == NumBasisFunctions
LLPm == Len(inp.state_sample)
LLPk == inp.num_actions
LLPHelper(x, si) == x[LLPd + si]

\* C13: large_linear_programming adds 2(k-1) rows and one helper column per
\* sampled state, then 2d bound rows: the solved problem has d + m columns
\* and 2(k-1)m + 2d rows, and the rows of a state touch its helper column
\* and no other.
C13_SampledProblemShape ==
    /\ (fn = "llp" /\ pc = "llp_css") =>
          /\ A_ub.cols = LLPd + LLPm
          /\ Len(A_ub.rows) = 2 * (LLPk - 1) * LLPm
    /\ (fn = "llp" /\ pc \in {"llp_built", "llp_solved"}) =>
          /\ A_ub.cols = LLPd + LLPm /\ Len(c) = LLPd + LLPm
          /\ Len(A_ub.rows) = 2 * (LLPk - 1) * LLPm + 2 * LLPd
          /\ Len(b_ub) = Len(A_ub.rows)
          /\ \A si \in 1..LLPm : \A r \in 1..(2 * (LLPk - 1)) :
                LET row == A_ub.rows[(si - 1) * 2 * (LLPk - 1) + r]
                IN  \A t \in 1..LLPm : (row[LLPd + t] # Q(0)) <=> (t = si)

C13_Witness ==
    /\ fn = "llp" /\ pc = "llp_solved" /\ LLPk = 3
    /\ A_ub.cols = 4 /\ Len(A_ub.rows) = 12

\* the margin of the expert over action a at sampled state si, per basis
\* function, for the transition draws of one run
LLPMargin(draws, si, a) ==
    VecSub(llp_a_ve(inp, draws, si, 0), llp_a_ve(inp, draws, si, a))

\* C14: in every feasible point of the sampled problem the helper of state s
\* is at most the margin and at most p times the margin of every non-expert
\* action, so the objective is bounded over the feasible set.
C14_HelperBelowMargins ==
    (fn = "llp" /\ pc = "llp_solved" /\ HasX /\ Feasible(CurLP, res.x)) =>
        /\ \E draws \in Draws(inp) :
              \A si \in 1..LLPm : \A a \in 1..(LLPk - 1) :
                  LET margin == Dot(LLPMargin(draws, si, a), SubSeq(res.x, 1, LLPd))
                  IN  /\ RLe(LLPHelper(res.x, si), margin)
                      /\ RLe(LLPHelper(res.x, si), RMul(inp.penalty_coefficient, margin))
        /\ ~Unbounded(CurLP, LLPd)

TLPd == Len(inp.phi)

\* how often the event e is in the log
RECURSIVE Count(_, _)
Count(events, e) ==
    IF events = <<>> THEN 0
    ELSE (IF Head(events) = e THEN 1 ELSE 0) + Count(Tail(events), e)

\* the outer iterations begun so far
Iterations == Count(log, "create")

\* C15: when the convergence check succeeds, trajectory_linear_programming
\* returns alpha_new, the first d coordinates of that iteration's solution.
C15_ReturnsNewAlpha ==
    (fn = "tlp" /\ pc = "done" /\ ret.kind = "value")
        => ret.value = SubSeq(res.x, 1, TLPd)

\* C16: the candidate set holds j policies while the j-th problem is built
\* and solved, one random policy before the first; it keeps its entries,
\* gains exactly one in a non-converging iteration and none in any other
\* step, and holds as many value vectors as policies.
PolicySetSized ==
    fn = "tlp" =>
        /\ Len(non_expert_policy_value_vectors) = Len(non_expert_policy_set)
        /\ pc = "tlp_loop" => Len(non_expert_policy_set) = Iterations + 1
        /\ pc \in {"tlp_new", "tlp_oe", "tlp_built", "tlp_solved"}
              => Len(non_expert_policy_set) = Iterations
        /\ (pc = "tlp_loop" /\ Iterations = 0) => Len(non_expert_policy_set) = 1
        /\ pc \in {"tlp_oe", "tlp_built", "tlp_solved"}
              => A_ub.cols = TLPd + Iterations

PolicySetGrows ==
    (fn = "tlp" /\ pc # "start") =>
        /\ SubSeq(non_expert_policy_set', 1, Len(non_expert_policy_set))
              = non_expert_policy_set
        /\ SubSeq(non_expert_policy_value_vectors', 1,
                  Len(non_expert_policy_value_vectors))
              = non_expert_policy_value_vectors
        /\ Len(non_expert_policy_set') =
              Len(non_expert_policy_set)
                 + (IF pc = "tlp_solved" /\ pc' = "tlp_loop" THEN 1 ELSE 0)

C16_CandidateSetGrowsByOne == []PolicySetSized /\ [][PolicySetGrows]_vars

C16_Witness ==
    /\ fn = "tlp" /\ pc = "tlp_solved" /\ Iterations = 2
    /\ Len(non_expert_policy_set) = 2
    /\ Len(non_expert_policy_value_vectors) = 2

\* the expert's policy as the first demonstration shows it, and its value
\* under the reward alpha . phi
ExpertAction(s) ==
    LET demo == inp.zeta[1]
    IN  (CHOOSE j \in 1..Len(demo) : demo[j][1] = s)
TLPStates == 1..Len(inp.T)
Demonstrated == \A s \in TLPStates : \E j \in 1..Len(inp.zeta[1]) : inp.zeta[1][j][1] = s
ExpertChoice(s) == inp.zeta[1][ExpertAction(s)][2]
TLPReward(a, s) == RSum([i \in 1..TLPd |-> RMul(a[i], inp.phi[i][s])])
ExpertTransitions ==
    [s \in TLPStates |->
        [t \in TLPStates |->
            IF inp.T[s][ExpertChoice(s) + 1].next = t THEN Q(1) ELSE Q(0)]]
ExpertValue(a) ==
    LET n == Len(inp.T)
        M == Inv(MatSub(Identity(n), MatScale(inp.gamma, ExpertTransitions)))
    IN  [s \in TLPStates |-> Dot(M[s], [t \in TLPStates |-> TLPReward(a, t)])]
ActionValue(a, s, act) ==
    RAdd(TLPReward(a, s), RMul(inp.gamma, ExpertValue(a)[inp.T[s][act + 1].next]))
ExpertStrictlyPreferred(a) ==
    \A s \in TLPStates : \A act \in 0..(Len(inp.T[s]) - 1) :
        act # ExpertChoice(s) =>
            RLt(ActionValue(a, s, act), ActionValue(a, s, ExpertChoice(s)))
NeverDone == \A s \in TLPStates : \A a \in 1..Len(inp.T[s]) : ~inp.T[s][a].done

\* C17: on the two-state, two-action deterministic environment with the
\* identity basis and tol = 1e-3, trajectory_linear_programming is done in
\* fewer than 10 outer iterations and the alpha it returns for an optimum,
\* some candidate policy's value differing from the expert's, makes the
\* expert's action strictly preferred at both states.
C17_ExpertStrictlyPreferred ==
    (fn = "tlp" /\ pc = "done" /\ ret.kind = "value" /\ res.status = "optimal"
        /\ ret.value = SubSeq(res.x, 1, TLPd)
        /\ inp.tol = Rat(1, 1000) /\ NeverDone /\ Demonstrated
        /\ \E j \in 1..Len(non_expert_policy_value_vectors) :
              non_expert_policy_value_vectors[j] # emperical_policy_value(inp, inp.zeta))
        => /\ Iterations < 10
           /\ ExpertStrictlyPreferred(ret.value)

\* C18: with two or more demonstrations the start-state check does not end
\* the run: the candidate set is initialised and rollouts start at the first
\* demonstration's first state.
C18_StartCheckNeverAborts ==
    (fn = "tlp" /\ pc # "start" /\ Len(inp.zeta) >= 2)
        => /\ ~(ret.kind = "raised" /\ Iterations = 0)
           /\ Len(non_expert_policy_set) >= 1

\* C19: trajectory_linear_programming returns a length-d alpha with every
\* |alpha_i| <= 1 and, second, the number of outer iterations performed.
C19_ReturnsAlphaAndIterationCount ==
    (fn = "tlp" /\ pc = "done" /\ ret.kind = "value")
        => /\ Len(ret.value) = TLPd
           /\ \A i \in 1..TLPd : RLe(RAbs(ret.value[i]), Q(1))
           /\ ret.second = ToString(Iterations)

\* C20: large_linear_programming and trajectory_linear_programming reject a
\* penalty coefficient below 1 at entry, before anything is sampled, any
\* block is applied or the solver is called.
PenaltyCoefficient ==
    IF fn = "llp" THEN inp.penalty_coefficient
    ELSE IF fn = "tlp" THEN inp.p
    ELSE Q(1)

C20_LowPenaltyRejectedAtEntry ==
    (fn \in {"llp", "tlp"} /\ pc # "start" /\ RLt(PenaltyCoefficient, Q(1)))
        => /\ pc = "done" /\ ret.kind = "raised"
           /\ ret.error \in {"AssertionError", "InvalidConfiguration"}
           /\ log = <<>> /\ c = <<>> /\ res = NoRes

\* C24: every outer iteration of trajectory_linear_programming logs, in this
\* order, the LP build, the solve, on_iteration (when a callback is given)
\* and, only when the convergence test fails, opt_pol and the rollouts of the
\* new policy; on_iteration follows every solve, the converging one included,
\* and opt_pol never occurs in or after the converging iteration.
BuildAndSolve ==
    <<"create", "add_optimal_expert_constraints", "add_alpha_size_constraints", "solve">>

Callback == IF inp.has_on_iteration THEN <<"on_iteration">> ELSE <<>>

NonConvergingIteration == BuildAndSolve \o Callback \o <<"opt_pol", "mc_trajectories">>

RECURSIVE Repeat(_, _)
Repeat(block, n) == IF n <= 0 THEN <<>> ELSE block \o Repeat(block, n - 1)

CompletedIterations ==
    <<"random_policy">> \o Repeat(NonConvergingIteration, Len(non_expert_policy_set) - 1)

C24_IterationEventOrder ==
    (fn = "tlp" /\ pc # "start" /\ ~(pc = "done" /\ ret.kind = "raised"))
        => log = CompletedIterations \o
                 CASE pc = "tlp_loop"   -> <<>>
                   [] pc = "tlp_new"    -> SubSeq(BuildAndSolve, 1, 1)
                   [] pc = "tlp_oe"     -> SubSeq(BuildAndSolve, 1, 2)
                   [] pc = "tlp_built"  -> SubSeq(BuildAndSolve, 1, 3)
                   [] pc = "tlp_solved" -> BuildAndSolve
                   [] pc = "done"       -> BuildAndSolve \o Callback

C24_Witness ==
    /\ fn = "tlp" /\ pc = "done" /\ ret.kind = "value"
    /\ inp.has_on_iteration
    /\ Iterations = 2
    /\ Count(log, "on_iteration") = 2 /\ Count(log, "opt_pol") = 1

\* C25: every outer iteration of trajectory_linear_programming builds its LP
\* from an empty problem over the d alpha columns; with j candidate policies
\* the LP handed to the solver has d + j columns, objective 0 on the alpha
\* columns and 1 on the j slack columns, and 2j + 2d rows.
C25_LPRebuiltEveryIteration ==
    LET j == Len(non_expert_policy_value_vectors)
    IN  /\ (fn = "tlp" /\ pc = "tlp_new")
            => /\ c = Zeros(TLPd)
               /\ A_ub = [cols |-> TLPd, rows |-> <<>>]
               /\ b_ub = <<>>
        /\ (fn = "tlp" /\ pc \in {"tlp_built", "tlp_solved"})
            => /\ c = Zeros(TLPd) \o Ones(j)
               /\ A_ub.cols = TLPd + j
               /\ \A i \in 1..Len(A_ub.rows) : Len(A_ub.rows[i]) = TLPd + j
               /\ Len(A_ub.rows) = 2 * j + 2 * TLPd
               /\ Len(b_ub) = 2 * j + 2 * TLPd

C25_Witness ==
    /\ fn = "tlp" /\ pc = "tlp_solved"
    /\ Iterations = 2
    /\ Len(non_expert_policy_value_vectors) = 2
    /\ Len(A_ub.rows) = 4 + 2 * TLPd

\* C26: the outer loop of trajectory_linear_programming has no iteration cap:
\* after a solve it returns exactly when the norm of alpha - alpha_new is at
\* most tol; otherwise, however many passes were made, it takes alpha_new,
\* adds one policy to the candidate set and builds the next LP.
LeavesLoopOnlyOnConvergence ==
    (fn = "tlp" /\ pc = "tlp_solved" /\ res.x # NoX /\ pc' # pc)
        => IF Converged(alpha, SubSeq(res.x, 1, TLPd), inp.tol)
           THEN pc' = "done" /\ ret'.kind = "value"
           ELSE /\ pc' = "tlp_loop"
                /\ alpha' = SubSeq(res.x, 1, TLPd)
                /\ Len(non_expert_policy_set') = Len(non_expert_policy_set) + 1

C26_LeavesLoopOnlyOnConvergence == [][LeavesLoopOnlyOnConvergence]_vars

C26_Witness ==
    /\ fn = "tlp" /\ pc = "tlp_solved" /\ res.x # NoX
    /\ Iterations = 2
    /\ ~Converged(alpha, SubSeq(res.x, 1, TLPd), inp.tol)

\* C27: every value estimate of trajectory_linear_programming is the mean
\* over exactly m rollouts of the policy; each rollout starts at the first
\* state of the first demonstration, holds between 1 and H (state, action)
\* entries that follow the policy and the sampler, stops short of H only
\* when the sampler reports done, and holds nothing after a done step.
Sampled(entry) == inp.T[entry[1]][entry[2] + 1]

WellFormedRollout(policy, rollout) ==
    /\ Len(rollout) >= 1 /\ Len(rollout) <= inp.H
    /\ rollout[1][1] = inp.zeta[1][1][1]
    /\ \A i \in 1..Len(rollout) : rollout[i][2] = policy[rollout[i][1]]
    /\ \A i \in 1..(Len(rollout) - 1) :
          /\ ~Sampled(rollout[i]).done
          /\ rollout[i + 1][1] = Sampled(rollout[i]).next
    /\ Len(rollout) < inp.H => Sampled(rollout[Len(rollout)]).done

C27_RolloutsBounded ==
    (fn = "tlp" /\ pc # "start" /\ inp.H >= 1)
        => \A j \in 1..Len(non_expert_policy_set) :
             LET policy == non_expert_policy_set[j]
                 trajectories == mc_trajectories(inp, policy)
             IN  /\ Len(trajectories) = inp.m
                 /\ \A i \in 1..inp.m : WellFormedRollout(policy, trajectories[i])
                 /\ non_expert_policy_value_vectors[j] =
                        emperical_policy_value(inp, trajectories)

C27_Witness ==
    /\ fn = "tlp" /\ pc = "tlp_loop"
    /\ Len(non_expert_policy_set) = 2
    /\ \E j \in 1..2 :
          LET rollout == mc_trajectories(inp, non_expert_policy_set[j])[1]
          IN  Len(rollout) < inp.H /\ Sampled(rollout[Len(rollout)]).done

\* C30: in either edge mode self.state is always a state index in
\* 0..size*size-1; reset() restores the initial state; step reports done
\* exactly when the new state is a goal state, with reward per_step_reward +
\* goal_reward then and per_step_reward otherwise.
C30_StateInRangeAndStepReports ==
    fn = "gw"
        => /\ self_state \in 0..(inp.size * inp.size - 1)
           /\ out.call = "reset"
                => /\ self_state = _xy2s(inp, inp.initial_state[1], inp.initial_state[2])
                   /\ out.state = self_state
           /\ out.call = "step"
                => LET goal == \E i \in 1..Len(inp.goal_states) :
                                  self_state = _xy2s(inp, inp.goal_states[i][1],
                                                     inp.goal_states[i][2])
                   IN  /\ out.result.state = self_state
                       /\ out.result.done = goal
                       /\ out.result.reward =
                              IF goal THEN inp.per_step_reward + inp.goal_reward
                              ELSE inp.per_step_reward

C30_Witness ==
    /\ fn = "gw" /\ out.call = "step"
    /\ inp.edge_mode = EDGEMODE_WRAP
    /\ out.from # self_state
    /\ out.result.done /\ out.result.reward = 1

\* C22: for every state s and every action the policy can return, Nothing
\* included, action row 0 of the tensor get_ordered_transition_tensor returns
\* is the original row of the policy's action:
\* sorted[s, 0, :] = transition_tensor[s, policy(s), :].
C22_PolicyActionFirst ==
    (fn = "gw" /\ out.call = "get_ordered_transition_tensor")
        => \A s \in _S(inp) :
              out.tensor[s][0] = transition_tensor(inp)[s][out.policy[s]]

\* C23: for every state s, action rows 1..k-1 of the tensor
\* get_ordered_transition_tensor returns are the original rows of the actions
\* other than the policy's, in self._A order, each exactly once.
RemainingAction(action, i) == IF i - 1 < action THEN i - 1 ELSE i

C23_RemainingActionsInOrder ==
    (fn = "gw" /\ out.call = "get_ordered_transition_tensor")
        => \A s \in _S(inp) : \A i \in 1..(Len(_A) - 1) :
              out.tensor[s][i] =
                 transition_tensor(inp)[s][RemainingAction(out.policy[s], i)]

\* C28: without wind, following the policy of get_optimal_policy from any
\* state reaches a goal state in the least possible number of steps, and the
\* policy answers ACTION_NOTHING exactly at the goal states.
RECURSIVE WithinSteps(_, _)
WithinSteps(env, n) ==
    IF n = 0 THEN {s \in _S(env) : _done(env, s)}
    ELSE LET nearer == WithinSteps(env, n - 1)
         IN  nearer \cup {s \in _S(env) :
                             \E a \in ActionIndices : MoveTarget(env, s, a) \in nearer}

LeastSteps(env, s) ==
    CHOOSE n \in 0..(env.size * env.size) :
       /\ s \in WithinSteps(env, n)
       /\ n > 0 => s \notin WithinSteps(env, n - 1)

RECURSIVE PolicySteps(_, _, _, _)
PolicySteps(env, policy, s, n) ==
    IF _done(env, s) \/ n >= env.size * env.size THEN n
    ELSE PolicySteps(env, policy, MoveTarget(env, s, policy[s]), n + 1)

C28_OptimalPolicyShortest ==
    (fn = "gw" /\ out.call = "get_optimal_policy" /\ inp.wind = Q(0))
        => \A s \in _S(inp) :
              /\ PolicySteps(inp, out.policy, s, 0) = LeastSteps(inp, s)
              /\ out.policy[s] = ACTION_NOTHING <=> _done(inp, s)

\* C29: without wind, the action greedy_policy(value_vector) answers for s
\* leads from s to a state of the largest value among the states the actions
\* lead to from that same s.
C29_GreedyFromSameState ==
    (fn = "gw" /\ out.call = "greedy_policy_returned" /\ inp.wind = Q(0))
        => \A a \in ActionIndices :
              out.value_vector[MoveTarget(inp, out.argument, a)]
                 <= out.value_vector[MoveTarget(inp, out.argument, out.action)]

====
